---------------------------- MODULE Spec2Model ----------------------------
(***************************************************************************)
(* Model of the image-composition engine of facebook_poster:               *)
(*   app/utils/collage.py         make_3x3_collage                         *)
(*   app/utils/post_generator.py  _load_font, _round_rect, _shadow,        *)
(*                                _fit_image, generate_post_images         *)
(* Images are records of their size, pixel format and origin; pixels are   *)
(* computed from that description.  Python floats are IEEE-754 doubles and *)
(* are modelled digit by digit (53-bit significand, round to nearest even).*)
(***************************************************************************)
EXTENDS Integers, Sequences, FiniteSets, TLC

\* ------------------------------------------------------------------------
\* Bounds of the model
\* ------------------------------------------------------------------------
MaxPaths == 10
MaxDim == 49
MaxBox == 2
MaxImg == 4
MaxRadius == 3

\* ------------------------------------------------------------------------
\* Python float arithmetic (IEEE-754 binary64) on positive values.
\* A float is [m |-> <<1, d1, d2, d3, d4>>, e |-> exponent]: the 53-bit
\* significand as its leading bit and four digits of LimbBits bits each,
\* most significant first; its value is (significand) * 2^(e - 52).
\* ------------------------------------------------------------------------
LimbBits == 13
Limb == 2^LimbBits
FractionBits == 4 * LimbBits

RECURSIVE ExpUp(_, _, _)
ExpUp(a, b, e) == IF b * 2^(e + 1) <= a THEN ExpUp(a, b, e + 1) ELSE e

RECURSIVE ExpDown(_, _, _)
ExpDown(a, b, k) == IF a * 2^k < b THEN ExpDown(a, b, k + 1) ELSE k

RECURSIVE BitLength(_)
BitLength(x) == IF x = 0 THEN 0 ELSE 1 + BitLength(x \div 2)

ShiftDigits(digs, q) ==
    [k \in 1..Len(digs) |-> IF k <= q THEN 0 ELSE digs[k - q]]

ShiftBits(ds, r) ==
    [k \in 1..Len(ds) |->
        (IF k = 1 THEN 0 ELSE (ds[k - 1] % 2^r) * 2^(LimbBits - r))
        + ds[k] \div 2^r]

\* digs shifted right by s bits (digits of LimbBits bits, most significant
\* first; the bits shifted out at the right end are dropped).
ShiftRight(digs, s) == ShiftBits(ShiftDigits(digs, s \div LimbBits), s % LimbBits)

AllFull(m, k) == \A j \in k..5 : m[j] = Limb - 1

\* The significand plus one unit in the last place (m[1] becomes 2 when the
\* carry runs through every digit).
IncDigits(m) ==
    [k \in 1..5 |->
        IF k = 5 THEN (IF m[5] = Limb - 1 THEN 0 ELSE m[5] + 1)
        ELSE IF ~AllFull(m, k + 1) THEN m[k]
        ELSE IF k = 1 THEN m[1] + 1
        ELSE IF m[k] = Limb - 1 THEN 0
        ELSE m[k] + 1]

Carried(d, e) ==
    IF d[1] = 2 THEN [m |-> <<1, 0, 0, 0, 0>>, e |-> e + 1]
    ELSE [m |-> d, e |-> e]

\* Round to nearest: the significand as it is, or one unit up.
RoundDigits(m, e, up) ==
    IF up THEN Carried(IncDigits(m), e) ELSE [m |-> m, e |-> e]

\* Long division: the four digits after the leading bit, and the remainder.
RECURSIVE DivDigits(_, _, _)
DivDigits(digs, rem, d) ==
    IF Len(digs) = 5 THEN <<digs, rem>>
    ELSE DivDigits(Append(digs, (rem * Limb) \div d), (rem * Limb) % d, d)

\* Ties go to the even significand.
DivRound(q, d, e) ==
    RoundDigits(q[1], e, 2 * q[2] > d \/ (2 * q[2] = d /\ q[1][5] % 2 = 1))

\* n / d with 1 <= n / d < 2, scaled by 2^e.
DivScaled(n, d, e) == DivRound(DivDigits(<<1>>, n - d, d), d, e)

Exponent(a, b) == IF a >= b THEN ExpUp(a, b, 0) ELSE 0 - ExpDown(a, b, 1)

FloatDivAt(a, b, e) ==
    IF e >= 0 THEN DivScaled(a, b * 2^e, e) ELSE DivScaled(a * 2^(0 - e), b, e)

\* a / b for positive integers a, b: the correctly rounded quotient.
FloatDiv(a, b) == FloatDivAt(a, b, Exponent(a, b))

\* The digits of n * m: six digits, the first two holding the top.
RECURSIVE MulDigits(_, _, _, _, _)
MulDigits(n, m, k, carry, out) ==
    IF k = 1
    THEN <<(n * m[1] + carry) \div Limb, (n * m[1] + carry) % Limb>> \o out
    ELSE MulDigits(n, m, k - 1, (n * m[k] + carry) \div Limb,
                   <<(n * m[k] + carry) % Limb>> \o out)

\* The bits that a right shift by s drops.
Lost(six, s) ==
    IF s < LimbBits THEN six[6] % 2^s
    ELSE (six[5] % 2^(s - LimbBits)) * Limb + six[6]

RoundsUp(six, s, kept) ==
    /\ s > 0
    /\ \/ Lost(six, s) > 2^(s - 1)
       \/ Lost(six, s) = 2^(s - 1) /\ kept[6] % 2 = 1

MulRound(six, s, kept, e) ==
    RoundDigits(SubSeq(kept, 2, 6), e + s, RoundsUp(six, s, kept))

MulShift(six, s, e) == MulRound(six, s, ShiftRight(six, s), e)

MulNormalize(six, e) == MulShift(six, BitLength(six[1] * Limb + six[2]) - 1, e)

\* n * f for a positive integer n (exact as a float) and a float f: the
\* exact product, rounded to 53 bits (nearest, ties to even).
FloatMulInt(n, f) == MulNormalize(MulDigits(n, f.m, 5, 0, <<>>), f.e)

\* int(f): truncation toward zero.
DigitsToInt(sh) == (sh[3] * Limb + sh[4]) * Limb + sh[5]

FloatToInt(f) ==
    IF f.e < 0 THEN 0 ELSE DigitsToInt(ShiftRight(f.m, FractionBits - f.e))

FloatGreater(f, g) ==
    \/ f.e > g.e
    \/ /\ f.e = g.e
       /\ \E i \in 1..5 :
            /\ f.m[i] > g.m[i]
            /\ \A j \in 1..(i - 1) : f.m[j] = g.m[j]

\* max(f, g): the first argument unless the second is greater.
FloatMax(f, g) == IF FloatGreater(g, f) THEN g ELSE f

\* ------------------------------------------------------------------------
\* Images
\* ------------------------------------------------------------------------
NoMask == 0 - 1
NoPath == 0
Opaque == 255

\* An image: size, pixel format, origin of its pixels (src, path), the
\* rounded-rectangle mask radius through which the origin was pasted, and
\* the alpha of its pixels (Opaque in a format without alpha channel).
NewImage(w, h, mode, src, path) ==
    [w |-> w, h |-> h, mode |-> mode, src |-> src, path |-> path,
     radius |-> NoMask, alpha |-> Opaque]

ResizeError == NewImage(0, 0, "error", "ValueError", NoPath)

IsError(img) == img.mode = "error"

\* Image.resize: a target size below 1 in either dimension is rejected.
Resize(img, nw, nh) ==
    IF nw < 1 \/ nh < 1 THEN ResizeError
    ELSE [img EXCEPT !.w = nw, !.h = nh]

\* Image.crop: the result has the size of the box.
Crop(img, left, top, right, bottom) ==
    [img EXCEPT !.w = right - left, !.h = bottom - top]

\* Lines 79-80: nw, nh = int(iw * scale), int(ih * scale).
Scaled(iw, ih, scale) ==
    <<FloatToInt(FloatMulInt(iw, scale)), FloatToInt(FloatMulInt(ih, scale))>>

\* Lines 79-80 with scale = max(tw / iw, th / ih).
FitSize(iw, ih, tw, th) ==
    Scaled(iw, ih, FloatMax(FloatDiv(tw, iw), FloatDiv(th, ih)))

\* Lines 82-84: the centred box of the target size.
CenterCrop(resized, tw, th) ==
    IF IsError(resized) THEN resized
    ELSE Crop(resized, (resized.w - tw) \div 2, (resized.h - th) \div 2,
              (resized.w - tw) \div 2 + tw, (resized.h - th) \div 2 + th)

\* Line 81.
ResizeTo(img, n) == Resize(img, n[1], n[2])

_fit_image(img, target_box) ==
    CenterCrop(ResizeTo(img, FitSize(img.w, img.h, target_box[1], target_box[2])),
               target_box[1], target_box[2])

\* ------------------------------------------------------------------------
\* _round_rect
\* ------------------------------------------------------------------------
\* draw.rounded_rectangle([(0, 0), (w, h)], radius, fill=255) on the mask:
\* whether the centre of pixel (x, y) lies in the rounded rectangle.  The
\* corner diameter is capped by the side; coordinates are doubled so that
\* pixel centres are integers.
InsideRoundedRect(x, y, w, h, radius) ==
    LET dx == IF 2 * radius >= w THEN w ELSE 2 * radius
        dy == IF 2 * radius >= h THEN h ELSE 2 * radius
        px == IF 2 * x + 1 < w THEN 2 * x + 1 ELSE 2 * w - (2 * x + 1)
        py == IF 2 * y + 1 < h THEN 2 * y + 1 ELSE 2 * h - (2 * y + 1)
    IN  \/ px >= dx
        \/ py >= dy
        \/ (dx - px) * (dx - px) * dy * dy + (dy - py) * (dy - py) * dx * dx
             <= dx * dx * dy * dy

\* out = Image.new("RGB", (w, h)); out.paste(img, (0, 0), mask)
_round_rect(img, radius) ==
    [w |-> img.w, h |-> img.h, mode |-> "RGB", src |-> img.src,
     path |-> img.path, radius |-> radius, alpha |-> Opaque]

\* The pixel of img at (x, y): the origin's pixel where the mask let it
\* through, the black fill of Image.new elsewhere.
Pixel(img, x, y) ==
    IF img.radius # NoMask /\ ~InsideRoundedRect(x, y, img.w, img.h, img.radius)
    THEN [src |-> "black", path |-> NoPath, x |-> 0, y |-> 0, a |-> img.alpha]
    ELSE [src |-> img.src, path |-> img.path, x |-> x, y |-> y, a |-> img.alpha]

\* ------------------------------------------------------------------------
\* _load_font
\* ------------------------------------------------------------------------
candidates ==
    << "/usr/share/fonts/truetype/dejavu/DejaVuSans-Bold.ttf",
       "/usr/share/fonts/truetype/dejavu/DejaVuSans.ttf",
       "/System/Library/Fonts/Supplemental/Arial Bold.ttf",
       "/System/Library/Fonts/Supplemental/Arial.ttf",
       "/Library/Fonts/Arial Bold.ttf",
       "/Library/Fonts/Arial.ttf",
       "arial.ttf" >>

\* The font files of the machine: each candidate is absent, a loadable font
\* file, or a file that ImageFont.truetype rejects.
FontFileStates == {"absent", "ok", "corrupt"}
FontEnvs == [1..Len(candidates) -> FontFileStates]

isfile(env, k) == env[k] # "absent"

\* ImageFont.truetype(path, size): raises on an unreadable font file and on
\* a size that is not positive.
TruetypeLoads(env, k, sz) == env[k] = "ok" /\ sz > 0

TruetypeFont(k, sz) == [kind |-> "truetype", path |-> candidates[k], size |-> sz]
DefaultFont == [kind |-> "default", path |-> "", size |-> 0]

RECURSIVE TryCandidatesNoCatch(_, _, _)
TryCandidatesNoCatch(env, sz, k) ==
    IF k > Len(candidates) THEN [raised |-> FALSE, font |-> DefaultFont]
    ELSE IF isfile(env, k)
         THEN IF TruetypeLoads(env, k, sz)
              THEN [raised |-> FALSE, font |-> TruetypeFont(k, sz)]
              ELSE [raised |-> TRUE, font |-> DefaultFont]
         ELSE TryCandidatesNoCatch(env, sz, k + 1)

RECURSIVE TryCandidates(_, _, _)
TryCandidates(env, sz, k) ==
    IF k > Len(candidates) THEN [raised |-> FALSE, font |-> DefaultFont]
    ELSE IF isfile(env, k) /\ TruetypeLoads(env, k, sz)
         THEN [raised |-> FALSE, font |-> TruetypeFont(k, sz)]
         ELSE TryCandidates(env, sz, k + 1)

\* The loop without its try/except: the first file that fails to load
\* raises out of the function.
LoadFontNoCatch(env, sz) == TryCandidatesNoCatch(env, sz, 1)

_load_font(env, sz) == TryCandidates(env, sz, 1)

\* ------------------------------------------------------------------------
\* Canvases, layers and files
\* ------------------------------------------------------------------------
NoImage == NewImage(0, 0, "none", "none", NoPath)
NoFont == [kind |-> "none", path |-> "", size |-> 0]

\* One thing put on a canvas: a pasted or composited image, a drawn
\* rectangle or a drawn text (a sequence of string pieces).
Layer(kind, x, y, img) ==
    [kind |-> kind, x |-> x, y |-> y, img |-> img, text |-> <<>>,
     font |-> NoFont, fill |-> <<0, 0, 0>>]

TextLayer(x, y, text, font, fill) ==
    [kind |-> "text", x |-> x, y |-> y, img |-> NoImage, text |-> text,
     font |-> font, fill |-> fill]

RectLayer(x, y, fill) ==
    [kind |-> "rect", x |-> x, y |-> y, img |-> NoImage, text |-> <<>>,
     font |-> NoFont, fill |-> fill]

\* An image being composed: its size, format and what was put on it, in order.
NewCanvas(sz, mode, layers) ==
    [w |-> sz[1], h |-> sz[2], mode |-> mode, layers |-> layers]

NoCanvas == NewCanvas(<<0, 0>>, "none", <<>>)

\* canvas.save(path, format="JPEG", quality=90): the file holds the canvas.
JpegFile(cv) ==
    [format |-> "JPEG", quality |-> 90, w |-> cv.w, h |-> cv.h,
     layers |-> cv.layers]

WriteFile(fs, path, content) ==
    [p \in DOMAIN fs \cup {path} |-> IF p = path THEN content ELSE fs[p]]

NoFiles == [p \in {} |-> NoCanvas]

\* ------------------------------------------------------------------------
\* The image files named by the paths: path p is the p-th input path.
\* ------------------------------------------------------------------------
ImageFileSize(p) == IF p % 2 = 1 THEN <<800, 600>> ELSE <<600, 800>>

\* Image.open(path).convert("RGB") of a readable file.
Decode(p) == NewImage(ImageFileSize(p)[1], ImageFileSize(p)[2], "RGB", "file", p)

\* ------------------------------------------------------------------------
\* make_3x3_collage
\* ------------------------------------------------------------------------
_center_crop_to_square(img) ==
    LET side == IF img.w <= img.h THEN img.w ELSE img.h
        left == (img.w - side) \div 2
        top  == (img.h - side) \div 2
    IN  Crop(img, left, top, left + side, top + side)

Take(s, n) == SubSeq(s, 1, IF n <= Len(s) THEN n ELSE Len(s))

RECURSIVE Repeat(_, _)
Repeat(s, n) == IF n <= 0 THEN <<>> ELSE s \o Repeat(s, n - 1)

GridSlots == 9

\* Without the limit to nine paths.
ScheduleNoLimit(paths) ==
    IF Len(paths) < GridSlots
    THEN LET reps == GridSlots - Len(paths)
         IN  paths \o Take(Repeat(paths, (reps + Len(paths) - 1) \div Len(paths)), reps)
    ELSE paths

\* Lines 24-28: limit to nine paths, repeat them if there are fewer.
Schedule(paths) ==
    LET first == Take(paths, GridSlots)
    IN  IF Len(first) < GridSlots
        THEN LET reps == GridSlots - Len(first)
             IN  first \o Take(Repeat(first, (reps + Len(first) - 1) \div Len(first)), reps)
        ELSE first

tile_w(sz) == sz[1] \div 3
tile_h(sz) == sz[2] \div 3

\* Without the try/except around Image.open: an unreadable path raises.
OpenTileNoCatch(p, unread, sz) ==
    IF p \in unread THEN NewImage(0, 0, "error", "DecodeError", p) ELSE Decode(p)

\* Lines 35-39: the image of the path, or a blank tile if it fails to open.
OpenTile(p, unread, sz) ==
    IF p \in unread
    THEN NewImage(tile_w(sz), tile_h(sz), "RGB", "gray", NoPath)
    ELSE Decode(p)

\* Lines 41-42.
MakeTile(img, sz) ==
    IF IsError(img) THEN img
    ELSE Resize(_center_crop_to_square(img), tile_w(sz), tile_h(sz))

output_path == <<"collages", "ad.jpg">>

\* ------------------------------------------------------------------------
\* generate_post_images: the three designs
\* ------------------------------------------------------------------------
out_dir == "out_dir"

Variants == 1..3

VariantName(n) ==
    CASE n = 1 -> "modern_square_1080"
      [] n = 2 -> "portrait_1200x1500"
      [] n = 3 -> "link_1200x628"

\* os.path.join(out_dir, name) with name = "<variant>.jpg".
VariantPath(n) == <<out_dir, VariantName(n), ".jpg">>

CanvasSize(n) ==
    CASE n = 1 -> <<1080, 1080>>
      [] n = 2 -> <<1200, 1500>>
      [] n = 3 -> <<1200, 628>>

hero_box(n) ==
    CASE n = 1 -> <<640, 640>>
      [] n = 2 -> <<1100, 900>>
      [] n = 3 -> <<760, 560>>

CornerRadius(n) ==
    CASE n = 1 -> 28
      [] n = 2 -> 24
      [] n = 3 -> 22

\* _shadow(img, offset, blur_radius, opacity) arguments.
ShadowArgs(n) ==
    CASE n = 1 -> [ox |-> 0, oy |-> 12, blur |-> 32, opacity |-> 110]
      [] n = 2 -> [ox |-> 0, oy |-> 10, blur |-> 28, opacity |-> 110]
      [] n = 3 -> [ox |-> 0, oy |-> 8, blur |-> 22, opacity |-> 110]

ShadowDest(n) ==
    CASE n = 1 -> <<80 - 16, 140 - 4>>
      [] n = 2 -> <<50, 90>>
      [] n = 3 -> <<40, 34>>

HeroDest(n) ==
    CASE n = 1 -> <<80, 140>>
      [] n = 2 -> <<60, 100>>
      [] n = 3 -> <<50, 40>>

\* Whether draw = ImageDraw.Draw(canvas) is executed before the canvas is
\* rebuilt from base_rgba (lines 180, 212) or after it (line 148).
DrawBoundBeforeComposite(n) == n \in {2, 3}

Abs(x) == IF x < 0 THEN 0 - x ELSE x

_shadow(img, a) ==
    [NewImage(img.w + Abs(a.ox) + a.blur * 2, img.h + Abs(a.oy) + a.blur * 2,
              "RGBA", "shadow", NoPath) EXCEPT !.alpha = a.opacity]

\* img.convert("RGBA")
ConvertRGBA(img) == [img EXCEPT !.mode = "RGBA"]

\* Strings are sequences of pieces; the empty piece contributes nothing.
Str(pieces) == SelectSeq(pieces, LAMBDA s : s # "")

RECURSIVE LStrip(_)
LStrip(s) == IF s # <<>> /\ s[1] = " " THEN LStrip(Tail(s)) ELSE s

RECURSIVE RStrip(_)
RStrip(s) ==
    IF s # <<>> /\ s[Len(s)] = " " THEN RStrip(SubSeq(s, 1, Len(s) - 1)) ELSE s

Strip(s) == RStrip(LStrip(s))

\* context.get(key, default)
Get(ctx, key, default) == IF key \in DOMAIN ctx THEN ctx[key] ELSE default

Light == <<229, 231, 235>>
Grey  == <<156, 163, 175>>
Blue  == <<59, 130, 246>>
White == <<255, 255, 255>>
Indigo == <<99, 102, 241>>

\* The draw calls of design n, in the order of the code (the bullet of
\* line 197 is written " * ").
DrawCalls(n, ctx, f) ==
    LET model      == Get(ctx, "model", "")
        year       == Get(ctx, "manufacture_year", "")
        price      == Get(ctx, "price", "")
        location   == Get(ctx, "location", "")
        price_type == Get(ctx, "price_type", "")
        phone      == Get(ctx, "phone", "")
        condition  == Get(ctx, "condition", "")
        site_name  == Get(ctx, "site_name", "Ganudenu.store")
    IN  CASE n = 1 ->
              << TextLayer(760, 160, Strip(Str(<<model, " ", year>>)), f.title, Light),
                 TextLayer(760, 160 + 88, Str(<<"Price: ", price, " (", price_type, ")">>), f.subtitle, Grey),
                 TextLayer(760, 160 + 88 + 50, Str(<<"Condition: ", condition>>), f.subtitle, Grey),
                 TextLayer(760, 160 + 88 + 50 + 50, Str(<<"Location: ", location>>), f.subtitle, Grey),
                 TextLayer(760, 160 + 88 + 50 + 50 + 50, Str(<<"Contact: ", phone>>), f.subtitle, Grey),
                 RectLayer(60, 60, Blue),
                 TextLayer(76, 70, Str(<<site_name>>), f.small, White) >>
          [] n = 2 ->
              << RectLayer(60, 1050, <<24, 31, 44>>),
                 TextLayer(90, 1050 + 40, Str(<<model, " ", year>>), f.title, Light),
                 TextLayer(90, 1050 + 110, Str(<<price, " (", price_type, ")">>), f.subtitle, Grey),
                 TextLayer(90, 1050 + 160, Str(<<condition, " * ", location>>), f.subtitle, Grey),
                 TextLayer(90, 1050 + 210, Str(<<"Contact: ", phone>>), f.subtitle, Grey),
                 TextLayer(940, 1050 + 210, Str(<<site_name>>), f.small, Indigo) >>
          [] n = 3 ->
              << TextLayer(840, 60, Str(<<model, " ", year>>), f.title, Light),
                 TextLayer(840, 140, Str(<<price, " (", price_type, ")">>), f.subtitle, Grey),
                 TextLayer(840, 190, Str(<<condition>>), f.subtitle, Grey),
                 TextLayer(840, 240, Str(<<location>>), f.subtitle, Grey),
                 RectLayer(840, 300, Blue),
                 TextLayer(860, 312, Str(<<"Call ", phone>>), f.small, White) >>

TextEntries(n, ctx, f) == SelectSeq(DrawCalls(n, ctx, f), LAMBDA l : l.kind = "text")

\* Without the fallback of lines 108-109: an unreadable hero raises.
OpenHeroNoCatch(paths, unread) ==
    IF paths[1] \in unread THEN NewImage(0, 0, "error", "DecodeError", paths[1])
    ELSE Decode(paths[1])

\* Lines 106-109: the first image, or a solid-colour canvas if it fails to open.
OpenHero(paths, unread) ==
    IF paths[1] \in unread THEN NewImage(1600, 1200, "RGB", "placeholder", NoPath)
    ELSE Decode(paths[1])

\* Lines 134-135 (183-184, 215-216).
RoundCard(fitted, radius) ==
    IF IsError(fitted) THEN fitted ELSE _round_rect(fitted, radius)

HeroCard(h, n) == RoundCard(_fit_image(h, hero_box(n)), CornerRadius(n))

\* Lines 141-145: base_rgba holds the old canvas, the shadow and the hero;
\* canvas = base_rgba.convert("RGB") is a new image.
Composite(old, card, n) ==
    NewCanvas(<<old.w, old.h>>, "RGB",
        old.layers \o
        << Layer("shadow", ShadowDest(n)[1], ShadowDest(n)[2], _shadow(card, ShadowArgs(n))),
           Layer("hero", HeroDest(n)[1], HeroDest(n)[2], ConvertRGBA(card)) >>)

\* ------------------------------------------------------------------------
\* State
\* ------------------------------------------------------------------------
VARIABLES
    fn,            \* the function that was called
    pc,            \* where the call is
    err,           \* the exception raised, "none" if none
    image_paths,   \* argument: the image paths
    unreadable,    \* environment: the paths Image.open fails on
    size,          \* the canvas size (argument of the collage, local of the post)
    opened,        \* the paths passed to Image.open so far
    files,         \* file system: path -> content of the files written
    dirs,          \* file system: directories created
    imgs, i, collage,
    context, fontenv, hero, fonts, outputs, heap, canvas, draw, v,
    fit_in, fit_box, fit_out,
    fit_nw_nh,     \* _fit_image: the size (nw, nh) passed to resize
    rr_in, rr_radius, rr_out,
    font_size, font_out

callVars    == <<fn, image_paths, unreadable, context, fontenv>>
collageVars == <<imgs, i, collage>>
postVars    == <<hero, fonts, outputs, heap, canvas, draw, v>>
fsVars      == <<files, dirs>>
fitVars     == <<fit_in, fit_box, fit_out, fit_nw_nh>>
rrVars      == <<rr_in, rr_radius, rr_out>>
fontVars    == <<font_size, font_out>>

vars == <<pc, err, size, opened, callVars, collageVars, postVars, fsVars,
          fitVars, rrVars, fontVars>>

NoFonts == [title |-> NoFont, subtitle |-> NoFont, small |-> NoFont]
NoOutputs == [k \in {} |-> <<>>]

\* The values of what a call has not touched yet.
IdleComposers ==
    /\ err = "none"
    /\ opened = {}
    /\ files = NoFiles
    /\ dirs = {}
    /\ imgs = <<>>
    /\ i = 0
    /\ collage = NoCanvas
    /\ hero = NoImage
    /\ fonts = NoFonts
    /\ outputs = NoOutputs
    /\ heap = <<>>
    /\ canvas = 0
    /\ draw = 0
    /\ v = 0

IdleFit ==
    /\ fit_in = NoImage
    /\ fit_box = <<0, 0>>
    /\ fit_out = NoImage
    /\ fit_nw_nh = <<0, 0>>

IdleRoundRect ==
    /\ rr_in = NoImage
    /\ rr_radius = 0
    /\ rr_out = NoImage

IdleFont ==
    /\ font_size = 0
    /\ font_out = [raised |-> FALSE, font |-> NoFont]

Idle == IdleComposers /\ IdleFit /\ IdleRoundRect /\ IdleFont

\* No image paths, no text fields: the call of a helper function.
NoArguments ==
    /\ image_paths = <<>>
    /\ unreadable = {}
    /\ size = <<0, 0>>
    /\ context = <<>>

Paths(k) == [j \in 1..k |-> j]

AllAbsent == [k \in 1..Len(candidates) |-> "absent"]

\* ------------------------------------------------------------------------
\* make_3x3_collage(image_paths, output_path, size)
\* ------------------------------------------------------------------------
CollageSizes == {<<1080, 1080>>, <<100, 50>>}

InitCollage ==
    /\ fn = "make_3x3_collage"
    /\ pc = "collage_call"
    /\ \E k \in 0..MaxPaths :
         /\ image_paths = Paths(k)
         /\ unreadable \in SUBSET (1..k)
    /\ size \in CollageSizes
    /\ context = <<>>
    /\ fontenv = AllAbsent
    /\ Idle

Raise(e) == pc' = "raised" /\ err' = e

\* No check for an empty list: a blank collage is written.
CollageEmptyWritesBlank ==
    /\ pc = "collage_call"
    /\ image_paths = <<>>
    /\ files' = WriteFile(files, output_path, JpegFile(NewCanvas(size, "RGB", <<>>)))
    /\ pc' = "returned"
    /\ UNCHANGED <<err, size, opened, dirs, callVars, collageVars, postVars,
                   fitVars, rrVars, fontVars>>

\* Lines 20-21.
CollageEmpty ==
    /\ pc = "collage_call"
    /\ image_paths = <<>>
    /\ Raise("ValueError")
    /\ UNCHANGED <<size, opened, callVars, collageVars, postVars, fsVars,
                   fitVars, rrVars, fontVars>>

\* Lines 24-32.
CollageSchedule ==
    /\ pc = "collage_call"
    /\ image_paths # <<>>
    /\ imgs' = Schedule(image_paths)
    /\ collage' = NewCanvas(size, "RGB", <<>>)
    /\ i' = 0
    /\ pc' = "collage_loop"
    /\ UNCHANGED <<err, size, opened, callVars, postVars, fsVars,
                   fitVars, rrVars, fontVars>>

\* Lines 34-46: one iteration of the loop over imgs[:9].
CollageTile ==
    /\ pc = "collage_loop"
    /\ i < Len(Take(imgs, GridSlots))
    /\ LET path == imgs[i + 1]
           img  == MakeTile(OpenTile(path, unreadable, size), size)
           row  == i \div 3
           col  == i % 3
       IN  /\ opened' = opened \cup {path}
           /\ IF IsError(img)
              THEN /\ Raise(img.src)
                   /\ UNCHANGED <<i, collage>>
              ELSE /\ collage' = [collage EXCEPT !.layers =
                           Append(@, Layer("tile", col * tile_w(size), row * tile_h(size), img))]
                   /\ i' = i + 1
                   /\ UNCHANGED <<pc, err>>
    /\ UNCHANGED <<size, imgs, callVars, postVars, fsVars, fitVars, rrVars, fontVars>>

\* Line 48 executed before the loop has finished.
CollageSaveAnyTime ==
    /\ pc = "collage_loop"
    /\ files' = WriteFile(files, output_path, JpegFile(collage))
    /\ pc' = "returned"
    /\ UNCHANGED <<err, size, opened, dirs, callVars, collageVars, postVars,
                   fitVars, rrVars, fontVars>>

\* Line 48: the collage is encoded and written.
CollageSave ==
    /\ pc = "collage_loop"
    /\ i = Len(Take(imgs, GridSlots))
    /\ files' = WriteFile(files, output_path, JpegFile(collage))
    /\ pc' = "returned"
    /\ UNCHANGED <<err, size, opened, dirs, callVars, collageVars, postVars,
                   fitVars, rrVars, fontVars>>

\* Line 48: the destination cannot be written; save raises.
CollageSaveFails ==
    /\ pc = "collage_loop"
    /\ i = Len(Take(imgs, GridSlots))
    /\ Raise("OSError")
    /\ UNCHANGED <<size, opened, callVars, collageVars, postVars, fsVars,
                   fitVars, rrVars, fontVars>>

NextCollage ==
    \/ CollageEmpty
    \/ CollageSchedule
    \/ CollageTile
    \/ CollageSave
    \/ CollageSaveFails

\* ------------------------------------------------------------------------
\* generate_post_images(image_paths, out_dir, context)
\* ------------------------------------------------------------------------
FullContext ==
    [k \in {"model", "manufacture_year", "price", "location", "price_type",
            "phone", "condition", "site_name"} |->
        CASE k = "model" -> "Corolla"
          [] k = "manufacture_year" -> "2015"
          [] k = "price" -> "2500000"
          [] k = "location" -> "Colombo"
          [] k = "price_type" -> "Negotiable"
          [] k = "phone" -> "0771234567"
          [] k = "condition" -> "Used"
          [] k = "site_name" -> "Ganudenu.store"]

Restrict(f, S) == [k \in S |-> f[k]]

Contexts ==
    { FullContext,
      Restrict(FullContext, {"model", "price", "phone"}),
      Restrict(FullContext, {}) }

PostFontEnvs ==
    { AllAbsent,
      [AllAbsent EXCEPT ![1] = "ok"],
      [AllAbsent EXCEPT ![1] = "corrupt", ![2] = "ok"] }

HeroReadability(k) == IF k = 0 THEN {{}} ELSE {{}, {1}}

InitPost ==
    /\ fn = "generate_post_images"
    /\ pc = "post_call"
    /\ \E k \in 0..MaxPaths :
         /\ image_paths = Paths(k)
         /\ unreadable \in HeroReadability(k)
    /\ size = <<0, 0>>
    /\ context \in Contexts
    /\ fontenv \in PostFontEnvs
    /\ Idle

\* Line 101.
PostMakedirs ==
    /\ pc = "post_call"
    /\ dirs' = dirs \cup {out_dir}
    /\ pc' = "post_check"
    /\ UNCHANGED <<err, size, opened, files, callVars, collageVars, postVars,
                   fitVars, rrVars, fontVars>>

\* Lines 102-103.
PostEmpty ==
    /\ pc = "post_check"
    /\ image_paths = <<>>
    /\ Raise("ValueError")
    /\ UNCHANGED <<size, opened, callVars, collageVars, postVars, fsVars,
                   fitVars, rrVars, fontVars>>

\* Lines 105-125: the hero, the text fields, the fonts, outputs = {}.
PostLoad ==
    /\ pc = "post_check"
    /\ image_paths # <<>>
    /\ opened' = opened \cup {image_paths[1]}
    /\ LET h == OpenHero(image_paths, unreadable)
           t == _load_font(fontenv, 64)
           s == _load_font(fontenv, 36)
           m == _load_font(fontenv, 28)
       IN  IF IsError(h) \/ t.raised \/ s.raised \/ m.raised
           THEN /\ Raise(IF IsError(h) THEN h.src ELSE "FontError")
                /\ UNCHANGED <<hero, fonts, outputs, v>>
           ELSE /\ hero' = h
                /\ fonts' = [title |-> t.font, subtitle |-> s.font, small |-> m.font]
                /\ outputs' = NoOutputs
                /\ v' = 1
                /\ pc' = "post_background"
                /\ err' = err
    /\ UNCHANGED <<size, heap, canvas, draw, callVars, collageVars, fsVars,
                   fitVars, rrVars, fontVars>>

\* Lines 128-130 (177-180, 209-212): the background, canvas = bg.copy(),
\* and in the second and third design draw = ImageDraw.Draw(canvas).
PostBackground ==
    /\ pc = "post_background"
    /\ size' = CanvasSize(v)
    /\ heap' = Append(heap, NewCanvas(size', "RGB", <<Layer("gradient", 0, 0, NoImage)>>))
    /\ canvas' = Len(heap')
    /\ draw' = IF DrawBoundBeforeComposite(v) THEN canvas' ELSE draw
    /\ pc' = "post_composite"
    /\ UNCHANGED <<err, opened, hero, fonts, outputs, v, callVars, collageVars,
                   fsVars, fitVars, rrVars, fontVars>>

\* Lines 133-148 (182-190, 214-222): the hero card and its shadow are
\* composited on base_rgba and canvas becomes base_rgba.convert("RGB"), a new
\* image; in the first design draw = ImageDraw.Draw(canvas) follows.
PostComposite ==
    /\ pc = "post_composite"
    /\ LET card == HeroCard(hero, v)
       IN  IF IsError(card)
           THEN /\ Raise(card.src)
                /\ UNCHANGED <<heap, canvas, draw>>
           ELSE /\ heap' = Append(heap, Composite(heap[canvas], card, v))
                /\ canvas' = Len(heap')
                /\ draw' = IF DrawBoundBeforeComposite(v) THEN draw ELSE canvas'
                /\ pc' = "post_text"
                /\ err' = err
    /\ UNCHANGED <<size, opened, hero, fonts, outputs, v, callVars, collageVars,
                   fsVars, fitVars, rrVars, fontVars>>

\* Lines 149-169 (193-201, 225-230): the draw calls go to the image draw
\* was created for.
PostText ==
    /\ pc = "post_text"
    /\ heap' = [heap EXCEPT ![draw].layers = @ \o DrawCalls(v, context, fonts)]
    /\ pc' = "post_save"
    /\ UNCHANGED <<err, size, opened, hero, fonts, outputs, canvas, draw, v,
                   callVars, collageVars, fsVars, fitVars, rrVars, fontVars>>

\* A failure of the draw calls that is swallowed: the design is skipped and
\* the next one is composed.
PostTextFailsIsolated ==
    /\ pc = "post_text"
    /\ v < 3
    /\ v' = v + 1
    /\ pc' = "post_background"
    /\ UNCHANGED <<err, size, opened, hero, fonts, outputs, heap, canvas, draw,
                   callVars, collageVars, fsVars, fitVars, rrVars, fontVars>>

\* A draw call raises (the font cannot render the text).
PostTextFails ==
    /\ pc = "post_text"
    /\ Raise("DrawError")
    /\ UNCHANGED <<size, opened, callVars, collageVars, postVars, fsVars,
                   fitVars, rrVars, fontVars>>

\* Lines 171-174 (203-206, 232-237): the canvas is written to
\* out_dir/<name>.jpg and recorded in outputs; after the third design the
\* function returns outputs.
PostSave ==
    /\ pc = "post_save"
    /\ files' = WriteFile(files, VariantPath(v), JpegFile(heap[canvas]))
    /\ outputs' = [k \in DOMAIN outputs \cup {VariantName(v)} |->
                      IF k = VariantName(v) THEN VariantPath(v) ELSE outputs[k]]
    /\ v' = IF v < 3 THEN v + 1 ELSE v
    /\ pc' = IF v < 3 THEN "post_background" ELSE "returned"
    /\ UNCHANGED <<err, size, opened, dirs, hero, fonts, heap, canvas, draw,
                   callVars, collageVars, fitVars, rrVars, fontVars>>

\* canvas.save raises: the destination cannot be written.
PostSaveFails ==
    /\ pc = "post_save"
    /\ Raise("OSError")
    /\ UNCHANGED <<size, opened, callVars, collageVars, postVars, fsVars,
                   fitVars, rrVars, fontVars>>

NextPost ==
    \/ PostMakedirs
    \/ PostEmpty
    \/ PostLoad
    \/ PostBackground
    \/ PostComposite
    \/ PostText
    \/ PostTextFails
    \/ PostSave
    \/ PostSaveFails

\* ------------------------------------------------------------------------
\* The two composers: a call of either, on any bounded input
\* ------------------------------------------------------------------------
Init == InitCollage \/ InitPost

Next == NextCollage \/ NextPost

Spec == Init /\ [][Next]_vars

\* ------------------------------------------------------------------------
\* _fit_image(img, target_box) on bounded inputs
\* ------------------------------------------------------------------------
InitFit ==
    /\ fn = "_fit_image"
    /\ pc = "fit_call"
    /\ \E w \in 1..MaxDim, h \in 1..MaxDim :
         fit_in = NewImage(w, h, "RGB", "file", 1)
    /\ fit_box \in (1..MaxBox) \X (1..MaxBox)
    /\ fit_out = NoImage
    /\ fit_nw_nh = <<0, 0>>
    /\ fontenv = AllAbsent
    /\ NoArguments /\ IdleComposers /\ IdleRoundRect /\ IdleFont

FitCall ==
    /\ pc = "fit_call"
    /\ fit_nw_nh' = FitSize(fit_in.w, fit_in.h, fit_box[1], fit_box[2])
    /\ fit_out' = _fit_image(fit_in, fit_box)
    /\ pc' = IF IsError(fit_out') THEN "raised" ELSE "returned"
    /\ err' = IF IsError(fit_out') THEN fit_out'.src ELSE "none"
    /\ UNCHANGED <<fit_in, fit_box, size, opened, callVars, collageVars,
                   postVars, fsVars, rrVars, fontVars>>

NextFit == FitCall

SpecFit == InitFit /\ [][NextFit]_vars

\* ------------------------------------------------------------------------
\* _round_rect(img, radius) on bounded inputs
\* ------------------------------------------------------------------------
InputAlphas(mode) == IF mode = "RGBA" THEN {0, 128, Opaque} ELSE {Opaque}

InitRoundRect ==
    /\ fn = "_round_rect"
    /\ pc = "rr_call"
    /\ \E w \in 1..MaxImg, h \in 1..MaxImg, mode \in {"RGB", "RGBA"} :
         \E a \in InputAlphas(mode) :
            rr_in = [NewImage(w, h, mode, "file", 1) EXCEPT !.alpha = a]
    /\ rr_radius \in 0..MaxRadius
    /\ rr_out = NoImage
    /\ fontenv = AllAbsent
    /\ NoArguments /\ IdleComposers /\ IdleFit /\ IdleFont

RoundRectCall ==
    /\ pc = "rr_call"
    /\ rr_out' = _round_rect(rr_in, rr_radius)
    /\ pc' = "returned"
    /\ UNCHANGED <<err, rr_in, rr_radius, size, opened, callVars, collageVars,
                   postVars, fsVars, fitVars, fontVars>>

NextRoundRect == RoundRectCall

SpecRoundRect == InitRoundRect /\ [][NextRoundRect]_vars

\* ------------------------------------------------------------------------
\* _load_font(size) on every state of the candidate font files
\* ------------------------------------------------------------------------
FontSizes == {0, 28, 36, 64}

InitFont ==
    /\ fn = "_load_font"
    /\ pc = "font_call"
    /\ fontenv \in FontEnvs
    /\ font_size \in FontSizes
    /\ font_out = [raised |-> FALSE, font |-> NoFont]
    /\ NoArguments /\ IdleComposers /\ IdleFit /\ IdleRoundRect

FontCall ==
    /\ pc = "font_call"
    /\ font_out' = _load_font(fontenv, font_size)
    /\ pc' = IF font_out'.raised THEN "raised" ELSE "returned"
    /\ err' = IF font_out'.raised THEN "FontError" ELSE "none"
    /\ UNCHANGED <<font_size, size, opened, callVars, collageVars, postVars,
                   fsVars, fitVars, rrVars>>

NextFont == FontCall

SpecFont == InitFont /\ [][NextFont]_vars

\* ------------------------------------------------------------------------
\* Properties
\* ------------------------------------------------------------------------
Range(s) == {s[k] : k \in 1..Len(s)}

InCollage == fn = "make_3x3_collage"
InPost    == fn = "generate_post_images"

\* C1: for a non-empty path sequence of length k, with m = min(k, 9), the
\* collage schedules exactly 9 slots, and slot s (0..8), pasted at row
\* s div 3 and column s mod 3, shows the image at input index s mod m: for
\* k >= 9 slot s shows image s and the paths after the ninth are never
\* opened; for k < 9 every supplied image appears, in cyclic order from
\* index 0.
C1_SlotShowsImageModM ==
    (InCollage /\ imgs # <<>>) =>
        LET k == Len(image_paths)
            m == IF k < 9 THEN k ELSE 9
        IN  /\ Len(imgs) = 9
            /\ \A s \in 0..8 : imgs[s + 1] = image_paths[(s % m) + 1]
            /\ \A j \in 1..m : \E s \in 0..8 : imgs[s + 1] = image_paths[j]
            /\ opened \subseteq {image_paths[j] : j \in 1..m}
            /\ \A s \in 0..(Len(collage.layers) - 1) :
                 LET t == collage.layers[s + 1]
                 IN  /\ t.x = (s % 3) * (size[1] \div 3)
                     /\ t.y = (s \div 3) * (size[2] \div 3)
                     /\ imgs[s + 1] \notin unreadable
                          => t.img.path = image_paths[(s % m) + 1]
            /\ pc = "returned" =>
                 /\ Len(collage.layers) = 9
                 /\ files[output_path].layers = collage.layers

\* Four readable paths: the written collage shows 1 2 3 4 1 2 3 4 1.
C1_Witness ==
    /\ InCollage /\ pc = "returned"
    /\ Len(image_paths) = 4 /\ unreadable = {}
    /\ [s \in 1..9 |-> files[output_path].layers[s].img.path]
         = <<1, 2, 3, 4, 1, 2, 3, 4, 1>>

\* C2: in generate_post_images, for each of the three designs, every text
\* entry of the design is drawn on the canvas that is encoded to the
\* design's file, after the shadow and the hero were composited on it.
C2_TextOnEncodedCanvas ==
    InPost =>
        \A n \in Variants :
            VariantPath(n) \in DOMAIN files =>
                LET L == files[VariantPath(n)].layers
                IN  \A e \in Range(TextEntries(n, context, fonts)) :
                        \E k \in 1..Len(L) :
                            /\ L[k] = e
                            /\ \E h \in 1..(k - 1) :
                                 /\ L[h].kind = "hero"
                                 /\ \E s \in 1..(h - 1) : L[s].kind = "shadow"

\* C3: given an empty path sequence, make_3x3_collage and
\* generate_post_images raise the empty-input error and no file is written,
\* neither at the collage output path nor in the post output directory.
C3_EmptyInputNoOutput ==
    ((InCollage \/ InPost) /\ image_paths = <<>>) =>
        /\ files = NoFiles
        /\ pc \in {"collage_call", "post_call", "post_check", "raised"}
        /\ pc = "raised" => err = "ValueError"

C3_Witness ==
    /\ InPost /\ image_paths = <<>>
    /\ pc = "raised" /\ err = "ValueError"
    /\ dirs = {out_dir}

\* C4: whatever scheduled paths fail to decode (all of them included), the
\* collage does not abort: a failing slot gets a flat light-grey tile of
\* the tile size, a decodable slot its own image, all 9 slots are filled
\* and the collage of the requested size is written to the output path.
C4_PlaceholderForUnreadable ==
    InCollage =>
        /\ \A s \in 1..Len(collage.layers) :
             LET t == collage.layers[s].img
             IN  /\ t.w = size[1] \div 3 /\ t.h = size[2] \div 3
                 /\ IF imgs[s] \in unreadable
                    THEN t.src = "gray" /\ t.path = NoPath
                    ELSE t.src = "file" /\ t.path = imgs[s]
        /\ pc = "raised" =>
             \/ image_paths = <<>> /\ err = "ValueError"
             \/ Len(collage.layers) = 9 /\ err = "OSError"
        /\ pc = "returned" =>
             /\ Len(collage.layers) = 9
             /\ output_path \in DOMAIN files
             /\ files[output_path].w = size[1]
             /\ files[output_path].h = size[2]
             /\ files[output_path].layers = collage.layers

\* One unreadable path among five: the collage is written, with the grey
\* tile in the slots of the third path.
C4_Witness ==
    /\ InCollage /\ pc = "returned"
    /\ Len(image_paths) = 5 /\ unreadable = {3}
    /\ files[output_path].layers[3].img.src = "gray"
    /\ files[output_path].layers[8].img.src = "gray"
    /\ files[output_path].layers[4].img.path = 4

\* C5: for a non-empty path sequence, whether or not the hero decodes,
\* generate_post_images opens only the first path, does not abort on the
\* hero's decode failure (a solid-colour placeholder stands in), and
\* returns a mapping with exactly the keys modern_square_1080,
\* portrait_1200x1500 and link_1200x628, each mapped to the written file
\* out_dir/<key>.jpg of size 1080x1080, 1200x1500 and 1200x628.
C5_ThreeOutputs ==
    (InPost /\ image_paths # <<>>) =>
        /\ opened \subseteq {image_paths[1]}
        /\ pc = "raised" => err \in {"DrawError", "OSError"}
        /\ (hero # NoImage /\ image_paths[1] \in unreadable)
             => hero.src = "placeholder" /\ hero.path = NoPath
        /\ (hero # NoImage /\ image_paths[1] \notin unreadable)
             => hero.src = "file" /\ hero.path = image_paths[1]
        /\ pc = "returned" =>
             /\ DOMAIN outputs =
                  {"modern_square_1080", "portrait_1200x1500", "link_1200x628"}
             /\ \A key \in DOMAIN outputs :
                  /\ outputs[key] = <<out_dir, key, ".jpg">>
                  /\ outputs[key] \in DOMAIN files
                  /\ <<files[outputs[key]].w, files[outputs[key]].h>> =
                       (CASE key = "modern_square_1080" -> <<1080, 1080>>
                          [] key = "portrait_1200x1500" -> <<1200, 1500>>
                          [] key = "link_1200x628" -> <<1200, 628>>)
             /\ DOMAIN files = {outputs[key] : key \in DOMAIN outputs}

\* The hero does not decode and the three files are returned all the same.
C5_Witness ==
    /\ InPost /\ pc = "returned"
    /\ Len(image_paths) = 3 /\ unreadable = {1}
    /\ hero.src = "placeholder"
    /\ Cardinality(DOMAIN outputs) = 3

\* C6: for every input image of at least 1x1 and every target box (w, h)
\* of positive integers, _fit_image returns an image of exactly w x h.
C6_FitReturnsBoxSize ==
    (fn = "_fit_image" /\ pc # "fit_call") =>
        /\ pc = "returned"
        /\ fit_out.w = fit_box[1]
        /\ fit_out.h = fit_box[2]

\* C7: for every input image (RGB or RGB+alpha) and every radius,
\* _round_rect returns an image of the same size in RGB+alpha format whose
\* pixels outside the rounded rectangle have alpha 0 and whose pixels
\* inside keep their original values.
C7_RoundRectTransparentCorners ==
    (fn = "_round_rect" /\ pc = "returned") =>
        /\ rr_out.w = rr_in.w
        /\ rr_out.h = rr_in.h
        /\ rr_out.mode = "RGBA"
        /\ \A x \in 0..(rr_in.w - 1), y \in 0..(rr_in.h - 1) :
             IF InsideRoundedRect(x, y, rr_in.w, rr_in.h, rr_radius)
             THEN Pixel(rr_out, x, y) = Pixel(rr_in, x, y)
             ELSE Pixel(rr_out, x, y).a = 0

C9_FirstLoadableFont ==
    (fn = "_load_font" /\ pc # "font_call") =>
        LET ok == {k \in 1..7 : fontenv[k] = "ok" /\ font_size > 0}
        IN  /\ pc = "returned"
            /\ ~font_out.raised
            /\ ok = {} => font_out.font = [kind |-> "default", path |-> "", size |-> 0]
            /\ ok # {} =>
                 LET first == CHOOSE k \in ok : \A j \in ok : k <= j
                 IN  font_out.font = [kind |-> "truetype",
                                      path |-> candidates[first],
                                      size |-> font_size]

\* An unloadable first candidate, an absent second one, a good third one.
C9_Witness ==
    /\ fn = "_load_font" /\ pc = "returned"
    /\ fontenv[1] = "corrupt" /\ fontenv[2] = "absent" /\ fontenv[3] = "ok"
    /\ font_size = 36
    /\ font_out.font.path = "/System/Library/Fonts/Supplemental/Arial Bold.ttf"

\* C10: the designs are processed in the order square, portrait, banner,
\* and a fatal error in design j aborts the rest: the error reaches the
\* caller, no mapping is returned, no file of design j or of a later one is
\* written, and the files of the designs before j stay in place.
C10_FatalErrorAbortsRest ==
    InPost =>
        /\ \A n \in Variants :
             VariantPath(n) \in DOMAIN files =>
                 \A m \in 1..(n - 1) : VariantPath(m) \in DOMAIN files
        /\ (pc = "raised" /\ v >= 1) =>
             /\ err # "none"
             /\ DOMAIN files = {VariantPath(m) : m \in 1..(v - 1)}
             /\ DOMAIN outputs = {VariantName(m) : m \in 1..(v - 1)}
        /\ pc = "returned" => v = 3 /\ err = "none"

\* The second design fails: the first file is there, the others are not.
C10_Witness ==
    /\ InPost /\ pc = "raised" /\ v = 2
    /\ DOMAIN files = {VariantPath(1)}

\* round(f) of a positive float f: the nearest integer, a tie going to the
\* even one.  2f is exact; its integer part k is odd exactly when the
\* fraction of f is at least one half.
FloatOne == [m |-> <<1, 0, 0, 0, 0>>, e |-> 0]

FloatTwice(f) == [f EXCEPT !.e = @ + 1]

FloatIsInt(f, k) == k > 0 /\ FloatMulInt(k, FloatOne) = f

FloatRound(f) ==
    LET k == FloatToInt(FloatTwice(f))
    IN  IF k % 2 = 0 THEN k \div 2
        ELSE IF FloatIsInt(FloatTwice(f), k) /\ ((k - 1) \div 2) % 2 = 0
             THEN (k - 1) \div 2
             ELSE (k + 1) \div 2

\* C11: for every input size (width, height) and target box (targetW,
\* targetH), _fit_image computes scale = max(targetW/width, targetH/height)
\* and resizes the image to (round(width*scale), round(height*scale))
\* before it crops the centre to the target box.
C11_ResizesToRounded ==
    (fn = "_fit_image" /\ pc # "fit_call") =>
        LET scale == FloatMax(FloatDiv(fit_box[1], fit_in.w),
                              FloatDiv(fit_box[2], fit_in.h))
        IN  fit_nw_nh = <<FloatRound(FloatMulInt(fit_in.w, scale)),
                          FloatRound(FloatMulInt(fit_in.h, scale))>>

=============================================================================
